---- MODULE Spec2Model ----
(***************************************************************************)
(* A model of mineru/utils/draw_bbox.py: the canvas mapping                *)
(* cal_canvas_rect, the overlay helpers draw_bbox_without_number and       *)
(* draw_bbox_with_number, draw_layout_bbox (classification, reading        *)
(* order, clean raster reconstruction, overlay rendering) and              *)
(* draw_span_bbox (last-span selection with the cross-page buffer, and     *)
(* the last-line crops).                                                   *)
(*                                                                         *)
(* Numbers.  Page and box coordinates are integers.  A raster coordinate   *)
(* bbox[k] * (image.width / pdf_width) is kept exactly, as the numerator   *)
(* bbox[k] * image.width over the denominator pdf_width (pdf_height for    *)
(* the vertical coordinates); the clamp bounds 0 and image.width are       *)
(* brought to the same denominator.                                        *)
(*                                                                         *)
(* A page of the document is [w, h, rotate]: cropbox[2], cropbox[3] and    *)
(* the /Rotate entry.  An exception that leaves a function is pc =         *)
(* "raised" with its name in `raised`.                                     *)
(***************************************************************************)
EXTENDS Integers, Sequences, FiniteSets, TLC

VARIABLES
    pc,                 \* position of the running function
    i,                  \* index of the page loop in progress (0-based, as in the code)
    raised,             \* the exception that escaped to the caller, or "none"
    page, bbox, rect,   \* cal_canvas_rect: its arguments and its result
    pdf_info,           \* the structural page sequence handed to draw_*_bbox
    pdf_docs,           \* the pages PdfReader reads from pdf_bytes
    buckets,            \* draw_layout_bbox: the per-category bbox lists
    layout_bbox_list,   \* draw_layout_bbox: the reading-order sequences
    images,             \* what convert_from_bytes returned
    cleaned_images,     \* draw_layout_bbox: per page, the regions pasted
    clean_saved,        \* the clean PDF was saved
    warnings,           \* logger.warning calls, in order
    output_pdf,         \* the overlay: per output page, its canvas calls
    written,            \* output_pdf.write(f) was reached
    next_page_text_spans_bboxes,  \* draw_span_bbox: the cross-page buffer
    candidates,         \* draw_span_bbox: page_text_spans_bboxes of each page done
    last_span_bboxes,   \* draw_span_bbox: the target of each page, or None
    crops               \* draw_span_bbox: the last-line images saved

vars == <<pc, i, raised, page, bbox, rect, pdf_info, pdf_docs, buckets,
          layout_bbox_list, images, cleaned_images, clean_saved, warnings,
          output_pdf, written, next_page_text_spans_bboxes, candidates,
          last_span_bboxes, crops>>

canvasVars == <<page, bbox, rect>>
layoutVars == <<buckets, layout_bbox_list, cleaned_images, clean_saved,
                output_pdf, written>>
spanVars == <<next_page_text_spans_bboxes, candidates, last_span_bboxes, crops>>
inputVars == <<pdf_info, pdf_docs>>

----------------------------------------------------------------------------
(* Bounds of the model *)

\* largest page width, page height and box coordinate
MaxDim == 3
\* most pages of a document or of pdf_info
MaxPages == 2
\* most sub-blocks of a Table or Image block
MaxSub == 3

----------------------------------------------------------------------------
(* Helpers *)

Abs(x) == IF x < 0 THEN -x ELSE x
Max(a, b) == IF a > b THEN a ELSE b
Min(a, b) == IF a < b THEN a ELSE b

\* Python's None
None == <<>>

RECURSIVE Concat(_)
Concat(ss) == IF ss = <<>> THEN <<>> ELSE Head(ss) \o Concat(Tail(ss))

SeqsUpTo(S, n) == UNION {[1..k -> S] : k \in 0..n}

----------------------------------------------------------------------------
(* cal_canvas_rect *)

\* /Rotate values; 450 and -90 exercise the `% 360`
Rotations == {0, 90, 180, 270, 450, -90}

PageGeoms == [w : 1..MaxDim, h : 1..MaxDim, rotate : Rotations]

Boxes == [1..4 -> 0..MaxDim]

cal_canvas_rect_swapped(pg, bb) ==
    LET page_width == pg.w
        page_height == pg.h
        rotation == pg.rotate % 360
        x0 == bb[1]
        y0 == bb[2]
        x1 == bb[3]
        y1 == bb[4]
        rect_w == Abs(x1 - x0)
        rect_h == Abs(y1 - y0)
    IN  IF rotation = 270 THEN <<page_height - y1, page_width - x1, rect_h, rect_w>>
        ELSE IF rotation = 180 THEN <<page_width - x1, y0, rect_w, rect_h>>
        ELSE IF rotation = 90 THEN <<y0, x0, rect_h, rect_w>>
        ELSE <<x0, page_height - y1, rect_w, rect_h>>

cal_canvas_rect(pg, bb) ==
    LET page_width == pg.w
        page_height == pg.h
        rotation == pg.rotate % 360
        swap == rotation \in {90, 270}
        actual_width == IF swap THEN page_height ELSE page_width
        actual_height == IF swap THEN page_width ELSE page_height
        x0 == bb[1]
        y0 == bb[2]
        x1 == bb[3]
        y1 == bb[4]
        rect_w == Abs(x1 - x0)
        rect_h == Abs(y1 - y0)
    IN  IF rotation = 270 THEN <<actual_height - y1, actual_width - x1, rect_h, rect_w>>
        ELSE IF rotation = 180 THEN <<page_width - x1, y0, rect_w, rect_h>>
        ELSE IF rotation = 90 THEN <<y0, x0, rect_h, rect_w>>
        ELSE <<x0, page_height - y1, rect_w, rect_h>>

----------------------------------------------------------------------------
(* Blocks.  BlockType's values are the strings of enum_class; line 189 of *)
(* draw_bbox.py spells the three table sub-types the same way.             *)

TABLE == "table"
IMAGE == "image"
TITLE == "title"
TEXT == "text"
INTERLINE_EQUATION == "interline_equation"
LIST == "list"
INDEX == "index"
TABLE_BODY == "table_body"
TABLE_CAPTION == "table_caption"
TABLE_FOOTNOTE == "table_footnote"
IMAGE_BODY == "image_body"
IMAGE_CAPTION == "image_caption"
IMAGE_FOOTNOTE == "image_footnote"
\* a type none of the branches names
OTHER_TYPE == "other"

Leaf(t, b) == [type |-> t, bbox |-> b, blocks |-> <<>>]
Nested(t, b) == [type |-> t, bbox |-> b]
Container(t, b, subs) == [type |-> t, bbox |-> b, blocks |-> subs]

----------------------------------------------------------------------------
(* draw_layout_bbox, lines 127-185: the per-page category lists *)

EmptyPageLists ==
    [tables |-> <<>>, tables_body |-> <<>>, tables_caption |-> <<>>,
     tables_footnote |-> <<>>, imgs |-> <<>>, imgs_body |-> <<>>,
     imgs_caption |-> <<>>, imgs_footnote |-> <<>>, titles |-> <<>>,
     texts |-> <<>>, interequations |-> <<>>, lists |-> <<>>, indices |-> <<>>]

EmptyBuckets ==
    [dropped_bbox_list |-> <<>>, tables_list |-> <<>>, tables_body_list |-> <<>>,
     tables_caption_list |-> <<>>, tables_footnote_list |-> <<>>,
     imgs_list |-> <<>>, imgs_body_list |-> <<>>, imgs_caption_list |-> <<>>,
     imgs_footnote_list |-> <<>>, titles_list |-> <<>>, texts_list |-> <<>>,
     interequations_list |-> <<>>, lists_list |-> <<>>, indexs_list |-> <<>>]

\* lines 144-151: the sub-blocks of a Table block
RECURSIVE classify_table_nested(_, _)
classify_table_nested(acc, nested) ==
    IF nested = <<>> THEN acc
    ELSE LET nb == Head(nested)
             acc2 == IF nb.type = TABLE_BODY
                        THEN [acc EXCEPT !.tables_body = Append(@, nb.bbox)]
                     ELSE IF nb.type = TABLE_CAPTION
                        THEN [acc EXCEPT !.tables_caption = Append(@, nb.bbox)]
                     ELSE IF nb.type = TABLE_FOOTNOTE
                        THEN [acc EXCEPT !.tables_footnote = Append(@, nb.bbox)]
                     ELSE acc
         IN  classify_table_nested(acc2, Tail(nested))

\* lines 154-161: the sub-blocks of an Image block
RECURSIVE classify_image_nested(_, _)
classify_image_nested(acc, nested) ==
    IF nested = <<>> THEN acc
    ELSE LET nb == Head(nested)
             acc2 == IF nb.type = IMAGE_BODY
                        THEN [acc EXCEPT !.imgs_body = Append(@, nb.bbox)]
                     ELSE IF nb.type = IMAGE_CAPTION
                        THEN [acc EXCEPT !.imgs_caption = Append(@, nb.bbox)]
                     ELSE IF nb.type = IMAGE_FOOTNOTE
                        THEN [acc EXCEPT !.imgs_footnote = Append(@, nb.bbox)]
                     ELSE acc
         IN  classify_image_nested(acc2, Tail(nested))

\* lines 141-171: one top-level block
classify_block(acc, block) ==
    IF block.type = TABLE
        THEN classify_table_nested([acc EXCEPT !.tables = Append(@, block.bbox)],
                                   block.blocks)
    ELSE IF block.type = IMAGE
        THEN classify_image_nested([acc EXCEPT !.imgs = Append(@, block.bbox)],
                                   block.blocks)
    ELSE IF block.type = TITLE THEN [acc EXCEPT !.titles = Append(@, block.bbox)]
    ELSE IF block.type = TEXT THEN [acc EXCEPT !.texts = Append(@, block.bbox)]
    ELSE IF block.type = INTERLINE_EQUATION
        THEN [acc EXCEPT !.interequations = Append(@, block.bbox)]
    ELSE IF block.type = LIST THEN [acc EXCEPT !.lists = Append(@, block.bbox)]
    ELSE IF block.type = INDEX THEN [acc EXCEPT !.indices = Append(@, block.bbox)]
    ELSE acc

\* lines 140-171: the loop over page["para_blocks"]
RECURSIVE classify_para_blocks(_, _)
classify_para_blocks(acc, blocks) ==
    IF blocks = <<>> THEN acc
    ELSE classify_para_blocks(classify_block(acc, Head(blocks)), Tail(blocks))

\* lines 137-138: the bboxes of page['discarded_blocks']
page_dropped_list(pg) ==
    [k \in 1..Len(pg.discarded_blocks) |-> pg.discarded_blocks[k].bbox]

\* lines 128-185: one iteration of `for page in pdf_info`
classify_page(bk, pg) ==
    LET l == classify_para_blocks(EmptyPageLists, pg.para_blocks)
    IN  [dropped_bbox_list |-> Append(bk.dropped_bbox_list, page_dropped_list(pg)),
         tables_list |-> Append(bk.tables_list, l.tables),
         tables_body_list |-> Append(bk.tables_body_list, l.tables_body),
         tables_caption_list |-> Append(bk.tables_caption_list, l.tables_caption),
         tables_footnote_list |-> Append(bk.tables_footnote_list, l.tables_footnote),
         imgs_list |-> Append(bk.imgs_list, l.imgs),
         imgs_body_list |-> Append(bk.imgs_body_list, l.imgs_body),
         imgs_caption_list |-> Append(bk.imgs_caption_list, l.imgs_caption),
         imgs_footnote_list |-> Append(bk.imgs_footnote_list, l.imgs_footnote),
         titles_list |-> Append(bk.titles_list, l.titles),
         texts_list |-> Append(bk.texts_list, l.texts),
         interequations_list |-> Append(bk.interequations_list, l.interequations),
         lists_list |-> Append(bk.lists_list, l.lists),
         indexs_list |-> Append(bk.indexs_list, l.indices)]

----------------------------------------------------------------------------
(* draw_layout_bbox, lines 187-212: the reading-order sequences *)

table_type_order_body_first(t) ==
    CASE t = TABLE_BODY -> 1
      [] t = TABLE_CAPTION -> 2
      [] t = TABLE_FOOTNOTE -> 3

\* line 189; a type that is no key has no value: the lookup raises KeyError
table_type_order(t) ==
    CASE t = TABLE_CAPTION -> 1
      [] t = TABLE_BODY -> 2
      [] t = TABLE_FOOTNOTE -> 3

TableTypeKeys == {TABLE_CAPTION, TABLE_BODY, TABLE_FOOTNOTE}

\* sorted(..., key=...) is stable: an element goes after the elements whose
\* key is not greater
RECURSIVE insert_sorted(_, _)
insert_sorted(sorted_blocks, x) ==
    IF sorted_blocks = <<>> THEN <<x>>
    ELSE IF table_type_order(x.type) < table_type_order(Head(sorted_blocks).type)
        THEN <<x>> \o sorted_blocks
    ELSE <<Head(sorted_blocks)>> \o insert_sorted(Tail(sorted_blocks), x)

RECURSIVE sorted_by_table_type(_, _)
sorted_by_table_type(done, todo) ==
    IF todo = <<>> THEN done
    ELSE sorted_by_table_type(insert_sorted(done, Head(todo)), Tail(todo))

bboxes_of(blocks) == [k \in 1..Len(blocks) |-> blocks[k].bbox]

table_parent_only(block) == <<block.bbox>>

\* lines 207-210: the bboxes a Table block adds
table_reading_order(block) ==
    bboxes_of(sorted_by_table_type(<<>>, block.blocks))

\* lines 193-210: the bboxes one top-level block adds
block_reading_order(block) ==
    IF block.type \in {TEXT, TITLE, INTERLINE_EQUATION, LIST, INDEX}
        THEN <<block.bbox>>
    ELSE IF block.type = IMAGE THEN bboxes_of(block.blocks)
    ELSE IF block.type = TABLE THEN table_reading_order(block)
    ELSE <<>>

RECURSIVE page_block_list(_)
page_block_list(blocks) ==
    IF blocks = <<>> THEN <<>>
    ELSE block_reading_order(Head(blocks)) \o page_block_list(Tail(blocks))

\* line 207 raises KeyError on a Table sub-block whose type is no key
order_raises(pg) ==
    \E b \in 1..Len(pg.para_blocks) :
        /\ pg.para_blocks[b].type = TABLE
        /\ \E k \in 1..Len(pg.para_blocks[b].blocks) :
               pg.para_blocks[b].blocks[k].type \notin TableTypeKeys

----------------------------------------------------------------------------
(* The raster mapping of draw_layout_bbox (lines 227-266) and of           *)
(* draw_span_bbox (lines 397-418)                                          *)

\* lines 252-257 / 403-408: bbox * scale, as numerators over
\* (pdf_width, pdf_height, pdf_width, pdf_height)
pil_box(bb, page_image, pdf_page) ==
    <<bb[1] * page_image.width, bb[2] * page_image.height,
      bb[3] * page_image.width, bb[4] * page_image.height>>

\* lines 259-264 / 410-415
pil_box_safe(bb, page_image, pdf_page) ==
    LET pb == pil_box(bb, page_image, pdf_page)
    IN  <<Max(0, pb[1]), Max(0, pb[2]),
          Min(page_image.width * pdf_page.w, pb[3]),
          Min(page_image.height * pdf_page.h, pb[4])>>

\* lines 266 / 418
has_area(safe) == safe[1] < safe[3] /\ safe[2] < safe[4]

\* line 268: int() of the two non-negative coordinates
paste_position(safe, pdf_page) == <<safe[1] \div pdf_page.w, safe[2] \div pdf_page.h>>

all_bboxes_with_dropped(bk, n) ==
    bk.dropped_bbox_list[n] \o bk.tables_body_list[n] \o bk.tables_caption_list[n]
    \o bk.tables_footnote_list[n] \o bk.imgs_body_list[n] \o bk.imgs_caption_list[n]
    \o bk.imgs_footnote_list[n] \o bk.titles_list[n] \o bk.texts_list[n]
    \o bk.interequations_list[n] \o bk.lists_list[n] \o bk.indexs_list[n]

\* lines 236-248; n is the 1-based page number
all_bboxes_for_page(bk, n) ==
    bk.tables_body_list[n] \o bk.tables_caption_list[n]
    \o bk.tables_footnote_list[n] \o bk.imgs_body_list[n] \o bk.imgs_caption_list[n]
    \o bk.imgs_footnote_list[n] \o bk.titles_list[n] \o bk.texts_list[n]
    \o bk.interequations_list[n] \o bk.lists_list[n] \o bk.indexs_list[n]

\* lines 251-269: the crop and paste of each box with area
RECURSIVE paste_all(_, _, _)
paste_all(bbs, page_image, pdf_page) ==
    IF bbs = <<>> THEN <<>>
    ELSE LET safe == pil_box_safe(Head(bbs), page_image, pdf_page)
             rest == paste_all(Tail(bbs), page_image, pdf_page)
         IN  IF has_area(safe)
                THEN <<[bbox |-> Head(bbs), box |-> safe,
                        position |-> paste_position(safe, pdf_page)]>> \o rest
                ELSE rest

\* lines 224-271: new_image of page n, as the list of what was pasted on it
clean_page(bk, n, page_image, pdf_page) ==
    [page |-> n,
     size |-> <<page_image.width, page_image.height>>,
     considered |-> all_bboxes_for_page(bk, n),
     pasted |-> paste_all(all_bboxes_for_page(bk, n), page_image, pdf_page)]

\* convert_from_bytes renders a page as displayed: the sides of a page
\* rotated by 90 or 270 are exchanged
displayed(pg) ==
    IF (pg.rotate % 360) \in {90, 270} THEN [w |-> pg.h, h |-> pg.w]
                                        ELSE [w |-> pg.w, h |-> pg.h]

\* pixels per page unit of a rasterization
RasterScales == {1, 2}

rendered(pg, scale) ==
    [width |-> scale * displayed(pg).w, height |-> scale * displayed(pg).h]

CleanWarning == "Could not generate clean PDF"
OutOfBoundsWarning == "Page index out of bounds for images list"
NoSpansWarning == "No text spans found for page"
LastLineWarning == "Could not extract last line images"

----------------------------------------------------------------------------
(* The overlay: lines 60-113 and 297-337 *)

\* lines 64-72: one c.rect per bbox of the page's list
rect_ops(page_data, pg, rgb_config, fill_config) ==
    [k \in 1..Len(page_data) |->
        [op |-> "rect", bbox |-> page_data[k],
         rect |-> cal_canvas_rect(pg, page_data[k]),
         rgb |-> rgb_config, fill |-> fill_config]]

\* lines 60-73; bbox_list[i] is bbox_list[n] here, n the 1-based page number
draw_bbox_without_number(n, bbox_list, pg, c, rgb_config, fill_config) ==
    c \o rect_ops(bbox_list[n], pg, rgb_config, fill_config)

\* lines 97-107: where the label goes
label_origin(r, rotation) ==
    IF rotation = 0 THEN <<r[1] + r[3] + 2, r[2] + r[4] - 10>>
    ELSE IF rotation = 90 THEN <<r[1] + 10, r[2] + r[4] + 2>>
    ELSE IF rotation = 180 THEN <<r[1] - 2, r[2] + 10>>
    ELSE IF rotation = 270 THEN <<r[1] + r[3] - 10, r[2] - 2>>
    ELSE <<0, 0>>

\* lines 82-111: the calls for the j-th bbox (j is 0-based)
number_ops(j, bb, pg, rgb_config, fill_config, draw_bbox) ==
    LET r == cal_canvas_rect(pg, bb)
        rotation == pg.rotate % 360
    IN  (IF draw_bbox
            THEN <<[op |-> "rect", bbox |-> bb, rect |-> r,
                    rgb |-> rgb_config, fill |-> fill_config]>>
            ELSE <<>>)
        \o <<[op |-> "drawString", bbox |-> bb, rect |-> r, rgb |-> rgb_config,
              text |-> j + 1, at |-> label_origin(r, rotation), rotate |-> rotation]>>

\* lines 76-113
draw_bbox_with_number(n, bbox_list, pg, c, rgb_config, fill_config, draw_bbox) ==
    c \o Concat([k \in 1..Len(bbox_list[n]) |->
                    number_ops(k - 1, bbox_list[n][k], pg, rgb_config,
                               fill_config, draw_bbox)])

\* lines 306-320: the canvas of page n
overlay_canvas(n, bk, lbl, pg) ==
    LET c0 == <<>>
        c1 == draw_bbox_without_number(n, bk.dropped_bbox_list, pg, c0, <<158, 158, 158>>, TRUE)
        c2 == draw_bbox_without_number(n, bk.tables_body_list, pg, c1, <<204, 204, 0>>, TRUE)
        c3 == draw_bbox_without_number(n, bk.tables_caption_list, pg, c2, <<255, 255, 102>>, TRUE)
        c4 == draw_bbox_without_number(n, bk.tables_footnote_list, pg, c3, <<229, 255, 204>>, TRUE)
        c5 == draw_bbox_without_number(n, bk.imgs_body_list, pg, c4, <<153, 255, 51>>, TRUE)
        c6 == draw_bbox_without_number(n, bk.imgs_caption_list, pg, c5, <<102, 178, 255>>, TRUE)
        c7 == draw_bbox_without_number(n, bk.imgs_footnote_list, pg, c6, <<255, 178, 102>>, TRUE)
        c8 == draw_bbox_without_number(n, bk.titles_list, pg, c7, <<102, 102, 255>>, TRUE)
        c9 == draw_bbox_without_number(n, bk.texts_list, pg, c8, <<153, 0, 76>>, TRUE)
        c10 == draw_bbox_without_number(n, bk.interequations_list, pg, c9, <<0, 255, 0>>, TRUE)
        c11 == draw_bbox_without_number(n, bk.lists_list, pg, c10, <<40, 169, 92>>, TRUE)
        c12 == draw_bbox_without_number(n, bk.indexs_list, pg, c11, <<40, 169, 92>>, TRUE)
    IN  draw_bbox_with_number(n, lbl, pg, c12, <<255, 0, 0>>, FALSE, FALSE)

\* lines 322-334: the page added to output_pdf; a canvas with no call saves
\* no page, and the original page is added as it is
overlay_page(n, bk, lbl, pg) ==
    LET c == overlay_canvas(n, bk, lbl, pg)
    IN  [source |-> n, canvas |-> c, merged |-> c # <<>>]

----------------------------------------------------------------------------
(* Inputs of draw_layout_bbox.  Three families, each small enough to be    *)
(* enumerated: one page around one Table or Image block with every         *)
(* sequence of sub-block types; documents and page sequences of every      *)
(* length; one Text block with every box on pages of every rotation.       *)

\* the k-th unit cell of the MaxDim x MaxDim grid, k from 0: boxes that
\* differ pairwise, so that a box names the block it came from
Cell(k) == <<k % MaxDim, k \div MaxDim, (k % MaxDim) + 1, (k \div MaxDim) + 1>>

WholeBox == <<0, 0, MaxDim, MaxDim>>
SquarePage == [w |-> MaxDim, h |-> MaxDim, rotate |-> 0]

TableSubTypes == {TABLE_CAPTION, TABLE_BODY, TABLE_FOOTNOTE, OTHER_TYPE}
ImageSubTypes == {IMAGE_CAPTION, IMAGE_BODY, IMAGE_FOOTNOTE, OTHER_TYPE}
LeafTypes == {TEXT, TITLE, INTERLINE_EQUATION, LIST, INDEX}

\* sub-blocks of the given types, the k-th in Cell(k - 1)
SubBlocks(ts) == [k \in 1..Len(ts) |-> Nested(ts[k], Cell(k - 1))]

Containers ==
    {Container(TABLE, WholeBox, SubBlocks(ts)) : ts \in SeqsUpTo(TableSubTypes, MaxSub)}
    \cup {Container(IMAGE, WholeBox, SubBlocks(ts)) : ts \in SeqsUpTo(ImageSubTypes, MaxSub)}

StructPages ==
    {[para_blocks |-> pre \o <<blk>> \o post, discarded_blocks |-> d] :
        pre \in {<<>>, <<Leaf(TEXT, Cell(MaxSub))>>},
        blk \in Containers,
        post \in {<<>>} \cup {<<Leaf(t, Cell(MaxSub + 1))>> : t \in LeafTypes \cup {OTHER_TYPE}},
        d \in {<<>>, <<[bbox |-> Cell(MaxSub + 2)]>>}}

StructInputs == {<<(<<pg>>), (<<SquarePage>>)>> : pg \in StructPages}

EmptyPage == [para_blocks |-> <<>>, discarded_blocks |-> <<>>]
TextPage == [para_blocks |-> <<Leaf(TEXT, Cell(0))>>,
             discarded_blocks |-> <<[bbox |-> Cell(1)]>>]
TablePage ==
    [para_blocks |->
        <<Container(TABLE, WholeBox,
                    <<Nested(TABLE_BODY, Cell(0)), Nested(TABLE_CAPTION, Cell(1)),
                      Nested(TABLE_FOOTNOTE, Cell(2))>>),
          Leaf(TEXT, Cell(MaxDim))>>,
     discarded_blocks |-> <<>>]
\* boxes with x1 < x0, y1 = y0, x1 = x0, y1 < y0
DegeneratePage ==
    [para_blocks |->
        <<Container(TABLE, WholeBox, <<Nested(TABLE_BODY, <<2, 0, 1, 1>>)>>),
          Container(IMAGE, WholeBox, <<Nested(IMAGE_CAPTION, <<0, 1, 1, 1>>)>>),
          Leaf(TITLE, <<1, 0, 1, 1>>)>>,
     discarded_blocks |-> <<[bbox |-> <<0, 2, 1, 1>>]>>]

SmallPages == {EmptyPage, TextPage, TablePage, DegeneratePage}
SmallGeoms == {SquarePage, [w |-> MaxDim, h |-> MaxDim - 1, rotate |-> 90]}

CountInputs ==
    {<<info, docs>> : info \in SeqsUpTo(SmallPages, MaxPages),
                      docs \in SeqsUpTo(SmallGeoms, MaxPages)}

WideBoxes ==
    {<<x0, y0, x1, y1>> : x0 \in -1..MaxDim, y0 \in -1..MaxDim,
                          x1 \in 0..(MaxDim + 1), y1 \in 0..(MaxDim + 1)}
RotatedGeoms ==
    {[w |-> MaxDim, h |-> hh, rotate |-> r] :
        hh \in {MaxDim - 1, MaxDim}, r \in {0, 90, 180, 270}}

GeomInputs ==
    {<<(<<[para_blocks |-> <<Leaf(TEXT, b)>>, discarded_blocks |-> <<>>]>>), (<<g>>)>> :
        b \in WideBoxes, g \in RotatedGeoms}

LayoutInputs == StructInputs \cup CountInputs \cup GeomInputs

----------------------------------------------------------------------------
(* draw_layout_bbox *)

NoPage == [w |-> 1, h |-> 1, rotate |-> 0]
CanvasIdle == page = NoPage /\ bbox = <<0, 0, 0, 0>> /\ rect = <<>>
SpanIdle ==
    /\ next_page_text_spans_bboxes = <<>>
    /\ candidates = <<>>
    /\ last_span_bboxes = <<>>
    /\ crops = <<>>
LayoutIdle ==
    /\ buckets = EmptyBuckets
    /\ layout_bbox_list = <<>>
    /\ cleaned_images = <<>>
    /\ clean_saved = FALSE
    /\ output_pdf = <<>>
    /\ written = FALSE

Init ==
    /\ pc = "classify"
    /\ i = 0
    /\ raised = "none"
    /\ \E inp \in LayoutInputs : pdf_info = inp[1] /\ pdf_docs = inp[2]
    /\ images = <<>>
    /\ warnings = <<>>
    /\ LayoutIdle
    /\ CanvasIdle
    /\ SpanIdle

\* lines 127-185, one iteration
ClassifyPage ==
    /\ pc = "classify"
    /\ i < Len(pdf_info)
    /\ buckets' = classify_page(buckets, pdf_info[i + 1])
    /\ i' = i + 1
    /\ UNCHANGED <<pc, raised, canvasVars, inputVars, layout_bbox_list, images,
                   cleaned_images, clean_saved, warnings, output_pdf, written,
                   spanVars>>

ClassifyEnd ==
    /\ pc = "classify"
    /\ i = Len(pdf_info)
    /\ pc' = "order"
    /\ i' = 0
    /\ UNCHANGED <<raised, canvasVars, inputVars, layoutVars, images, warnings,
                   spanVars>>

\* lines 190-212, one iteration; the KeyError of line 207 leaves the function
OrderPage ==
    /\ pc = "order"
    /\ i < Len(pdf_info)
    /\ IF order_raises(pdf_info[i + 1])
          THEN /\ pc' = "raised"
               /\ raised' = "KeyError"
               /\ UNCHANGED <<i, layout_bbox_list>>
          ELSE /\ layout_bbox_list' =
                      Append(layout_bbox_list, page_block_list(pdf_info[i + 1].para_blocks))
               /\ i' = i + 1
               /\ UNCHANGED <<pc, raised>>
    /\ UNCHANGED <<canvasVars, inputVars, buckets, images, cleaned_images,
                   clean_saved, warnings, output_pdf, written, spanVars>>

OrderEnd ==
    /\ pc = "order"
    /\ i = Len(pdf_info)
    /\ pc' = "convert"
    /\ UNCHANGED <<i, raised, canvasVars, inputVars, layoutVars, images, warnings,
                   spanVars>>

\* lines 215-217: the rasterization returns the first n pages, at some scale
ConvertReturns ==
    /\ pc = "convert"
    /\ \E n \in 0..Len(pdf_docs), scale \in RasterScales :
           images' = [k \in 1..n |-> rendered(pdf_docs[k], scale)]
    /\ pc' = "paste"
    /\ i' = 0
    /\ UNCHANGED <<raised, canvasVars, inputVars, layoutVars, warnings, spanVars>>

\* lines 215, 294-295: the rasterization raises
ConvertFails ==
    /\ pc = "convert"
    /\ warnings' = Append(warnings, CleanWarning)
    /\ pc' = "overlay"
    /\ i' = 0
    /\ UNCHANGED <<raised, canvasVars, inputVars, layoutVars, images, spanVars>>

\* lines 219-271, one iteration.  images holds no more pages than pdf_docs,
\* so pages[i] of line 226 exists whenever images[i] does
PastePage ==
    /\ pc = "paste"
    /\ i < Len(pdf_info)
    /\ IF i >= Len(images)
          THEN /\ warnings' = Append(warnings, OutOfBoundsWarning)
               /\ UNCHANGED cleaned_images
          ELSE /\ cleaned_images' =
                      Append(cleaned_images,
                             clean_page(buckets, i + 1, images[i + 1], pdf_docs[i + 1]))
               /\ UNCHANGED warnings
    /\ i' = i + 1
    /\ UNCHANGED <<pc, raised, canvasVars, inputVars, buckets, layout_bbox_list,
                   images, clean_saved, output_pdf, written, spanVars>>

\* lines 273-292: the clean PDF is saved
SaveClean ==
    /\ pc = "paste"
    /\ i = Len(pdf_info)
    /\ cleaned_images # <<>>
    /\ clean_saved' = TRUE
    /\ pc' = "overlay"
    /\ i' = 0
    /\ UNCHANGED <<raised, canvasVars, inputVars, buckets, layout_bbox_list, images,
                   cleaned_images, warnings, output_pdf, written, spanVars>>

\* lines 290-295: the save raises
SaveCleanFails ==
    /\ pc = "paste"
    /\ i = Len(pdf_info)
    /\ cleaned_images # <<>>
    /\ warnings' = Append(warnings, CleanWarning)
    /\ pc' = "overlay"
    /\ i' = 0
    /\ UNCHANGED <<raised, canvasVars, inputVars, layoutVars, images, spanVars>>

\* line 273: nothing to save
SaveCleanSkipped ==
    /\ pc = "paste"
    /\ i = Len(pdf_info)
    /\ cleaned_images = <<>>
    /\ pc' = "overlay"
    /\ i' = 0
    /\ UNCHANGED <<raised, canvasVars, inputVars, layoutVars, images, warnings,
                   spanVars>>

\* lines 301-334, one iteration; bbox_list[i] of line 62 raises IndexError
\* when pdf_info has no page i
OverlayPage ==
    /\ pc = "overlay"
    /\ i < Len(pdf_docs)
    /\ IF i >= Len(buckets.dropped_bbox_list)
          THEN /\ pc' = "raised"
               /\ raised' = "IndexError"
               /\ UNCHANGED <<i, output_pdf>>
          ELSE /\ output_pdf' =
                      Append(output_pdf,
                             overlay_page(i + 1, buckets, layout_bbox_list, pdf_docs[i + 1]))
               /\ i' = i + 1
               /\ UNCHANGED <<pc, raised>>
    /\ UNCHANGED <<canvasVars, inputVars, buckets, layout_bbox_list, images,
                   cleaned_images, clean_saved, warnings, written, spanVars>>

\* lines 336-337
WriteOutput ==
    /\ pc = "overlay"
    /\ i = Len(pdf_docs)
    /\ written' = TRUE
    /\ pc' = "done"
    /\ UNCHANGED <<i, raised, canvasVars, inputVars, buckets, layout_bbox_list,
                   images, cleaned_images, clean_saved, warnings, output_pdf,
                   spanVars>>

Next ==
    \/ ClassifyPage
    \/ ClassifyEnd
    \/ OrderPage
    \/ OrderEnd
    \/ ConvertReturns
    \/ ConvertFails
    \/ PastePage
    \/ SaveClean
    \/ SaveCleanFails
    \/ SaveCleanSkipped
    \/ OverlayPage
    \/ WriteOutput

Spec == Init /\ [][Next]_vars

----------------------------------------------------------------------------
(* cal_canvas_rect called on its own *)

InitCanvas ==
    /\ pc = "call"
    /\ i = 0
    /\ raised = "none"
    /\ page \in PageGeoms
    /\ bbox \in Boxes
    /\ rect = <<>>
    /\ pdf_info = <<>>
    /\ pdf_docs = <<>>
    /\ images = <<>>
    /\ warnings = <<>>
    /\ LayoutIdle
    /\ SpanIdle

CalCanvasRect ==
    /\ pc = "call"
    /\ rect' = cal_canvas_rect(page, bbox)
    /\ pc' = "done"
    /\ UNCHANGED <<i, raised, page, bbox, inputVars, layoutVars, images, warnings,
                   spanVars>>

NextCanvas == CalCanvasRect

SpecCanvas == InitCanvas /\ [][NextCanvas]_vars

----------------------------------------------------------------------------
(* draw_span_bbox, lines 341-375: the last span of each page *)

\* ContentType.TEXT and a span type that is not Text
SPAN_TEXT == "text"
SPAN_INLINE_EQUATION == "inline_equation"

Span(t, cross, b) == [type |-> t, cross_page |-> cross, bbox |-> b]
Line(spans) == [spans |-> spans]
SpanBlock(t, lines) == [type |-> t, lines |-> lines, blocks |-> <<>>]
SpanContainer(t, subs) == [type |-> t, lines |-> <<>>, blocks |-> subs]

take_carried_keep(buffer) == [page_text_spans_bboxes |-> buffer, next |-> buffer]

\* lines 345-348: the page's list starts with the buffer, which is cleared
take_carried(buffer) == [page_text_spans_bboxes |-> buffer, next |-> <<>>]

\* lines 357-361 / 366-370: one span
collect_span(acc, span) ==
    IF span.type = SPAN_TEXT
        THEN IF span.cross_page
                THEN [acc EXCEPT !.next = Append(@, span.bbox)]
                ELSE [acc EXCEPT !.page_text_spans_bboxes = Append(@, span.bbox)]
        ELSE acc

RECURSIVE collect_spans(_, _)
collect_spans(acc, spans) ==
    IF spans = <<>> THEN acc
    ELSE collect_spans(collect_span(acc, Head(spans)), Tail(spans))

\* lines 355-356 / 364-365: the lines of a block or sub-block
RECURSIVE collect_lines(_, _)
collect_lines(acc, lines) ==
    IF lines = <<>> THEN acc
    ELSE collect_lines(collect_spans(acc, Head(lines).spans), Tail(lines))

\* lines 363-370: the sub-blocks of an Image or Table block
RECURSIVE collect_sub_blocks(_, _)
collect_sub_blocks(acc, subs) ==
    IF subs = <<>> THEN acc
    ELSE collect_sub_blocks(collect_lines(acc, Head(subs).lines), Tail(subs))

\* lines 351-370: one block of preproc_blocks
collect_block(acc, block) ==
    IF block.type \in {TEXT, TITLE, INTERLINE_EQUATION, LIST, INDEX}
        THEN collect_lines(acc, block.lines)
    ELSE IF block.type \in {IMAGE, TABLE}
        THEN collect_sub_blocks(acc, block.blocks)
    ELSE acc

RECURSIVE collect_blocks(_, _)
collect_blocks(acc, blocks) ==
    IF blocks = <<>> THEN acc
    ELSE collect_blocks(collect_block(acc, Head(blocks)), Tail(blocks))

\* lines 372-375
last_of(page_text_spans_bboxes) ==
    IF page_text_spans_bboxes # <<>>
        THEN page_text_spans_bboxes[Len(page_text_spans_bboxes)]
        ELSE None

\* most pages of the pdf_info given to draw_span_bbox
MaxSpanPages == 3

OwnText == SpanBlock(TEXT, <<Line(<<Span(SPAN_TEXT, FALSE, Cell(0))>>)>>)
CrossTitle ==
    SpanBlock(TITLE, <<Line(<<Span(SPAN_TEXT, TRUE, Cell(1)),
                              Span(SPAN_INLINE_EQUATION, FALSE, Cell(2))>>)>>)
MixedTable ==
    SpanContainer(TABLE,
        <<[lines |-> <<Line(<<Span(SPAN_TEXT, FALSE, Cell(3))>>),
                       Line(<<Span(SPAN_TEXT, TRUE, Cell(4))>>)>>]>>)
IgnoredBlock == SpanBlock(OTHER_TYPE, <<Line(<<Span(SPAN_TEXT, TRUE, Cell(5))>>)>>)

SpanPages ==
    {[preproc_blocks |-> bs] :
        bs \in {<<>>, <<OwnText>>, <<CrossTitle>>, <<MixedTable>>, <<IgnoredBlock>>,
                <<CrossTitle, OwnText>>, <<OwnText, CrossTitle>>,
                <<MixedTable, CrossTitle>>, <<IgnoredBlock, OwnText>>}}

InitSpan ==
    /\ pc = "spans"
    /\ i = 0
    /\ raised = "none"
    /\ pdf_info \in SeqsUpTo(SpanPages, MaxSpanPages)
    /\ pdf_docs = [k \in 1..Len(pdf_info) |-> SquarePage]
    /\ images = <<>>
    /\ warnings = <<>>
    /\ SpanIdle
    /\ LayoutIdle
    /\ CanvasIdle

\* lines 344-375, one iteration
SpanPage ==
    /\ pc = "spans"
    /\ i < Len(pdf_info)
    /\ LET acc == collect_blocks(take_carried(next_page_text_spans_bboxes),
                                 pdf_info[i + 1].preproc_blocks)
       IN  /\ candidates' = Append(candidates, acc.page_text_spans_bboxes)
           /\ next_page_text_spans_bboxes' = acc.next
           /\ last_span_bboxes' =
                  Append(last_span_bboxes, last_of(acc.page_text_spans_bboxes))
    /\ i' = i + 1
    /\ UNCHANGED <<pc, raised, canvasVars, inputVars, layoutVars, images, warnings,
                   crops>>

SpanLoopEnd ==
    /\ pc = "spans"
    /\ i = Len(pdf_info)
    /\ pc' = "span_convert"
    /\ UNCHANGED <<i, raised, canvasVars, inputVars, layoutVars, images, warnings,
                   spanVars>>

\* lines 379-383
SpanConvertReturns ==
    /\ pc = "span_convert"
    /\ \E n \in 0..Len(pdf_docs), scale \in RasterScales :
           images' = [k \in 1..n |-> rendered(pdf_docs[k], scale)]
    /\ pc' = "crop"
    /\ i' = 0
    /\ UNCHANGED <<raised, canvasVars, inputVars, layoutVars, warnings, spanVars>>

\* lines 379-383, 423-424: the rasterization or makedirs raises
SpanConvertFails ==
    /\ pc = "span_convert"
    /\ warnings' = Append(warnings, LastLineWarning)
    /\ pc' = "done"
    /\ UNCHANGED <<i, raised, canvasVars, inputVars, layoutVars, images, spanVars>>

\* the crop of page i (0-based), lines 395-415
crop_box(k) == pil_box_safe(last_span_bboxes[k + 1], images[k + 1], pdf_docs[k + 1])

\* lines 385-421, one iteration
CropPage ==
    /\ pc = "crop"
    /\ i < Len(pdf_info)
    /\ IF i >= Len(images)
          THEN /\ warnings' = Append(warnings, OutOfBoundsWarning)
               /\ UNCHANGED crops
          ELSE IF last_span_bboxes[i + 1] = None
          THEN /\ warnings' = Append(warnings, NoSpansWarning)
               /\ UNCHANGED crops
          ELSE IF has_area(crop_box(i))
          THEN /\ crops' = Append(crops, [page |-> i, bbox |-> last_span_bboxes[i + 1],
                                          box |-> crop_box(i)])
               /\ UNCHANGED warnings
          ELSE UNCHANGED <<crops, warnings>>
    /\ i' = i + 1
    /\ UNCHANGED <<pc, raised, canvasVars, inputVars, layoutVars, images,
                   next_page_text_spans_bboxes, candidates, last_span_bboxes>>

\* lines 421, 423-424: saving the crop of page i raises
CropSaveFails ==
    /\ pc = "crop"
    /\ i < Len(pdf_info)
    /\ i < Len(images)
    /\ last_span_bboxes[i + 1] # None
    /\ has_area(crop_box(i))
    /\ warnings' = Append(warnings, LastLineWarning)
    /\ pc' = "done"
    /\ UNCHANGED <<i, raised, canvasVars, inputVars, layoutVars, images, spanVars>>

CropEnd ==
    /\ pc = "crop"
    /\ i = Len(pdf_info)
    /\ pc' = "done"
    /\ UNCHANGED <<i, raised, canvasVars, inputVars, layoutVars, images, warnings,
                   spanVars>>

NextSpan ==
    \/ SpanPage
    \/ SpanLoopEnd
    \/ SpanConvertReturns
    \/ SpanConvertFails
    \/ CropPage
    \/ CropSaveFails
    \/ CropEnd

SpecSpan == InitSpan /\ [][NextSpan]_vars

----------------------------------------------------------------------------
(* Properties of cal_canvas_rect, checked under SpecCanvas *)

\* x0 < x1 and y0 < y1, inside the page as displayed
InsideDisplayed(pg, bb) ==
    /\ 0 <= bb[1] /\ bb[1] < bb[3] /\ bb[3] <= displayed(pg).w
    /\ 0 <= bb[2] /\ bb[2] < bb[4] /\ bb[4] <= displayed(pg).h

\* [x, y, w, h] has positive sides and lies in [0, width] x [0, height]
FitsIn(r, width, height) ==
    /\ r[3] > 0 /\ r[4] > 0
    /\ 0 <= r[1] /\ r[1] + r[3] <= width
    /\ 0 <= r[2] /\ r[2] + r[4] <= height

\* C1 as stated: for every rotation and every box inside the displayed page,
\* the rectangle has positive sides and lies within [0, effective_width] x
\* [0, effective_height], the page sides exchanged for rotations 90 and 270.
C1_FitsEffectivePage ==
    (pc = "done" /\ page.rotate \in {0, 90, 180, 270} /\ InsideDisplayed(page, bbox))
        => FitsIn(rect, displayed(page).w, displayed(page).h)

\* C1 as amended: for every rotation and every box inside the displayed page,
\* the rectangle has positive sides and lies within [0, page_width] x
\* [0, page_height], the stored sides of the page (the size of the overlay
\* canvas), not exchanged for any rotation.
C1_FitsStoredPage ==
    (pc = "done" /\ InsideDisplayed(page, bbox))
        => FitsIn(rect, page.w, page.h)

\* a box inside a page displayed rotated, wider stored than displayed, whose
\* rectangle reaches the right edge of the stored page
C1_Witness ==
    /\ pc = "done"
    /\ InsideDisplayed(page, bbox)
    /\ (page.rotate % 360) \in {90, 270}
    /\ page.w > page.h
    /\ rect[1] + rect[3] = page.w

----------------------------------------------------------------------------
(* Properties of draw_span_bbox, checked under SpecSpan *)

BlockSpans(block) ==
    IF block.type \in {TEXT, TITLE, INTERLINE_EQUATION, LIST, INDEX}
        THEN Concat([l \in 1..Len(block.lines) |-> block.lines[l].spans])
    ELSE IF block.type \in {IMAGE, TABLE}
        THEN Concat([b \in 1..Len(block.blocks) |->
                 Concat([l \in 1..Len(block.blocks[b].lines) |->
                            block.blocks[b].lines[l].spans])])
    ELSE <<>>

\* the Text spans the extractor reads on a page, in document order
TextSpans(pg) ==
    SelectSeq(Concat([b \in 1..Len(pg.preproc_blocks) |-> BlockSpans(pg.preproc_blocks[b])]),
              LAMBDA sp : sp.type = SPAN_TEXT)

CarriedSpans(pg) == bboxes_of(SelectSeq(TextSpans(pg), LAMBDA sp : sp.cross_page))
OwnSpans(pg) == bboxes_of(SelectSeq(TextSpans(pg), LAMBDA sp : ~sp.cross_page))

\* what page n (from 1) receives from the page before it
CarriedInto(n) == IF n = 1 THEN <<>> ELSE CarriedSpans(pdf_info[n - 1])

\* C2: pages are processed in document order; the candidates of page N+1 are
\* exactly the cross_page Text spans of page N, in their order, followed by
\* the non-cross_page Text spans of page N+1; the buffer is emptied when it is
\* consumed, so it holds the cross_page spans of the last page done and of no
\* earlier page; the target of a page is the last candidate: its own last
\* non-cross_page span if it has one, otherwise the last carried span,
\* otherwise None.
C2_CrossPageCarry ==
    /\ Len(candidates) = Len(last_span_bboxes)
    /\ pc = "spans" => Len(candidates) = i
    /\ \A n \in 1..Len(candidates) :
          /\ candidates[n] = CarriedInto(n) \o OwnSpans(pdf_info[n])
          /\ last_span_bboxes[n] =
                IF OwnSpans(pdf_info[n]) # <<>>
                    THEN OwnSpans(pdf_info[n])[Len(OwnSpans(pdf_info[n]))]
                ELSE IF CarriedInto(n) # <<>>
                    THEN CarriedInto(n)[Len(CarriedInto(n))]
                ELSE None
    /\ next_page_text_spans_bboxes =
          IF candidates = <<>> THEN <<>>
          ELSE CarriedSpans(pdf_info[Len(candidates)])

\* three pages done: page 1 carries a span into page 2, which has spans of its
\* own after it and carries nothing on, so page 3 has only its own
C2_Witness ==
    /\ Len(candidates) >= 3
    /\ CarriedSpans(pdf_info[1]) # <<>>
    /\ OwnSpans(pdf_info[2]) # <<>>
    /\ CarriedSpans(pdf_info[2]) = <<>>
    /\ candidates[2][1] = CarriedSpans(pdf_info[1])[1]
    /\ last_span_bboxes[2] = OwnSpans(pdf_info[2])[Len(OwnSpans(pdf_info[2]))]
    /\ candidates[3] = OwnSpans(pdf_info[3])

----------------------------------------------------------------------------
(* Properties of draw_layout_bbox, checked under Spec *)

Degenerate(bb) == bb[3] <= bb[1] \/ bb[4] <= bb[2]

\* the canvas calls of output page k of the given kind
CallsOf(k, kind) == SelectSeq(output_pdf[k].canvas, LAMBDA call : call.op = kind)

\* the numbers drawn on output page k, in drawing order
LabelsOf(k) == [j \in 1..Len(CallsOf(k, "drawString")) |-> CallsOf(k, "drawString")[j].text]

\* the priority the reading order gives the sub-blocks of a Table block
CaptionBodyFootnote(t) ==
    CASE t = TABLE_CAPTION -> 1
      [] t = TABLE_BODY -> 2
      [] t = TABLE_FOOTNOTE -> 3

\* group holds the bboxes of subs, each once, by ascending priority, those of
\* equal priority in the order of subs
SortedByPriority(group, subs) ==
    /\ Len(group) = Len(subs)
    /\ \E f \in Permutations(1..Len(subs)) :
          /\ \A k \in 1..Len(subs) : group[k] = subs[f[k]].bbox
          /\ \A k, l \in 1..Len(subs) :
                k < l =>
                   \/ CaptionBodyFootnote(subs[f[k]].type)
                         < CaptionBodyFootnote(subs[f[l]].type)
                   \/ /\ CaptionBodyFootnote(subs[f[k]].type)
                            = CaptionBodyFootnote(subs[f[l]].type)
                      /\ f[k] < f[l]

\* the number of bboxes a top-level block has in the reading order
GroupSize(block) ==
    IF block.type \in {TABLE, IMAGE} THEN Len(block.blocks)
    ELSE IF block.type \in LeafTypes THEN 1
    ELSE 0

GroupOk(group, block) ==
    IF block.type = TABLE THEN SortedByPriority(group, block.blocks)
    ELSE IF block.type = IMAGE THEN group = bboxes_of(block.blocks)
    ELSE IF block.type \in LeafTypes THEN group = <<block.bbox>>
    ELSE group = <<>>

\* seq is the groups of the blocks, one after the other in the order of the blocks
RECURSIVE GroupsInBlockOrder(_, _)
GroupsInBlockOrder(seq, blocks) ==
    IF blocks = <<>> THEN seq = <<>>
    ELSE LET n == GroupSize(Head(blocks))
         IN  /\ Len(seq) >= n
             /\ GroupOk(SubSeq(seq, 1, n), Head(blocks))
             /\ GroupsInBlockOrder(SubSeq(seq, n + 1, Len(seq)), Tail(blocks))

\* C3: in every reading-order sequence built, the sub-block bboxes of each
\* Table block appear sorted by caption(1) < body(2) < footnote(3), those of
\* equal type in input order, whatever the input order; the group of a block
\* stands where the block stands among the top-level blocks; Image sub-blocks
\* keep their input order.
C3_TableSubBlocksByPriority ==
    \A p \in 1..Len(layout_bbox_list) :
        GroupsInBlockOrder(layout_bbox_list[p], pdf_info[p].para_blocks)

\* a page done whose Table block has its sub-blocks in the order footnote,
\* body, caption, between a Text block and another block
C3_Witness ==
    /\ Len(layout_bbox_list) >= 1
    /\ Len(pdf_info[1].para_blocks) = 3
    /\ pdf_info[1].para_blocks[2].type = TABLE
    /\ [k \in 1..Len(pdf_info[1].para_blocks[2].blocks) |->
           pdf_info[1].para_blocks[2].blocks[k].type]
          = <<TABLE_FOOTNOTE, TABLE_BODY, TABLE_CAPTION>>
    /\ layout_bbox_list[1] =
          <<pdf_info[1].para_blocks[1].bbox, Cell(2), Cell(1), Cell(0),
            pdf_info[1].para_blocks[3].bbox>>

\* one Table block with a body, a caption and a footnote, then one Text block
IsTableThenText(pg) ==
    /\ Len(pg.para_blocks) = 2
    /\ pg.para_blocks[1].type = TABLE
    /\ Len(pg.para_blocks[1].blocks) = 3
    /\ {pg.para_blocks[1].blocks[k].type : k \in 1..3}
          = {TABLE_BODY, TABLE_CAPTION, TABLE_FOOTNOTE}
    /\ pg.para_blocks[2].type = TEXT

\* C8 as stated: for a single-page input of one Table block (body, caption,
\* footnote) followed by one Text block, the reading-order sequence, and the
\* sequence of number labels drawn, has length 2.
C8_ReadingOrderLengthTwo ==
    (Len(pdf_info) = 1 /\ IsTableThenText(pdf_info[1]))
        => /\ Len(layout_bbox_list) >= 1 => Len(layout_bbox_list[1]) = 2
           /\ Len(output_pdf) >= 1 => Len(LabelsOf(1)) = 2

\* C8 as amended: for such an input the reading-order sequence has length 4
\* (caption, body, footnote, then the Text block), and the labels drawn are
\* 1, 2, 3, 4.
C8_ReadingOrderLengthFour ==
    (Len(pdf_info) = 1 /\ IsTableThenText(pdf_info[1]))
        => /\ Len(layout_bbox_list) >= 1 =>
                 /\ Len(layout_bbox_list[1]) = 4
                 /\ layout_bbox_list[1][4] = pdf_info[1].para_blocks[2].bbox
           /\ Len(output_pdf) >= 1 => LabelsOf(1) = <<1, 2, 3, 4>>

\* such an input rendered to the end, its four labels drawn
C8_Witness ==
    /\ pc = "done"
    /\ Len(pdf_info) = 1
    /\ IsTableThenText(pdf_info[1])
    /\ Len(output_pdf) = 1
    /\ LabelsOf(1) = <<1, 2, 3, 4>>

\* the bboxes of the sub-blocks of type sub in the blocks of type parent
SubBoxesOf(pg, parent, sub) ==
    Concat([b \in 1..Len(pg.para_blocks) |->
        IF pg.para_blocks[b].type = parent
            THEN bboxes_of(SelectSeq(pg.para_blocks[b].blocks, LAMBDA nb : nb.type = sub))
            ELSE <<>>])

\* the bboxes of the top-level blocks of type t
TopBoxesOf(pg, t) == bboxes_of(SelectSeq(pg.para_blocks, LAMBDA blk : blk.type = t))

\* the boxes the clean reconstruction is to consider, category by category
PasteCandidates(pg) ==
    SubBoxesOf(pg, TABLE, TABLE_BODY) \o SubBoxesOf(pg, TABLE, TABLE_CAPTION)
    \o SubBoxesOf(pg, TABLE, TABLE_FOOTNOTE) \o SubBoxesOf(pg, IMAGE, IMAGE_BODY)
    \o SubBoxesOf(pg, IMAGE, IMAGE_CAPTION) \o SubBoxesOf(pg, IMAGE, IMAGE_FOOTNOTE)
    \o TopBoxesOf(pg, TITLE) \o TopBoxesOf(pg, TEXT)
    \o TopBoxesOf(pg, INTERLINE_EQUATION) \o TopBoxesOf(pg, LIST)
    \o TopBoxesOf(pg, INDEX)

\* bb has positive sides and lies within the page the raster stage measures:
\* [0, cropbox[2]] x [0, cropbox[3]]
InsidePage(bb, pg) ==
    /\ 0 <= bb[1] /\ bb[1] < bb[3] /\ bb[3] <= pg.w
    /\ 0 <= bb[2] /\ bb[2] < bb[4] /\ bb[4] <= pg.h

\* the part of bb within the page has positive area
MeetsPage(bb, pg) ==
    /\ bb[1] < bb[3] /\ bb[3] > 0 /\ bb[1] < pg.w
    /\ bb[2] < bb[4] /\ bb[4] > 0 /\ bb[2] < pg.h

----------------------------------------------------------------------------
(* Statements the code does not satisfy *)

\* C4: a degenerate box (x1 <= x0 or y1 <= y0) never causes a rectangle to be
\* drawn on the overlay, and is never pasted onto the clean canvas.
C4_DegenerateNeverDrawn ==
    /\ \A k \in 1..Len(output_pdf) :
           \A j \in 1..Len(CallsOf(k, "rect")) : ~Degenerate(CallsOf(k, "rect")[j].bbox)
    /\ \A k \in 1..Len(cleaned_images) :
           \A j \in 1..Len(cleaned_images[k].pasted) :
               ~Degenerate(cleaned_images[k].pasted[j].bbox)

Warned(msg) == \E k \in 1..Len(warnings) : warnings[k] = msg

\* C5: a failure inside the clean reconstruction is caught and logged, no
\* exception leaves the stage, and the overlay rendering that follows runs to
\* completion and writes the annotated document.
C5_OverlayCompletesAfterFailure ==
    (Warned(CleanWarning) /\ pc \in {"done", "raised"})
        => /\ pc = "done"
           /\ written
           /\ Len(output_pdf) = Len(pdf_docs)

\* C6: whatever the numbers of structural pages and of document pages, the
\* overlay rendering, once begun, completes with one output page per document
\* page in the same order; a page whose buckets are all empty has no rectangle.
C6_OnePagePerInputPage ==
    /\ ~(pc = "raised" /\ raised = "IndexError")
    /\ pc = "done" =>
          /\ written
          /\ Len(output_pdf) = Len(pdf_docs)
          /\ \A k \in 1..Len(output_pdf) : output_pdf[k].source = k
    /\ \A k \in 1..Len(output_pdf) :
          (pdf_info[k].discarded_blocks = <<>> /\ PasteCandidates(pdf_info[k]) = <<>>)
              => CallsOf(k, "rect") = <<>>

\* the whole raster of a page, over the denominators of its pixel rectangles
WholeRaster(size, doc) == <<0, 0, size[1] * doc.w, size[2] * doc.h>>

\* C7: the pixel rectangle of every region pasted is the bbox scaled by
\* (rasterWidth/pageWidth, rasterHeight/pageHeight) and clamped to the raster,
\* with 0 <= left < right <= rasterWidth and 0 <= top < bottom <=
\* rasterHeight, for every rotation; and a box covering the whole displayed
\* page maps to the whole raster.
C7_RasterMapping ==
    \A k \in 1..Len(cleaned_images) :
        LET ci == cleaned_images[k]
            doc == pdf_docs[ci.page]
            whole == <<0, 0, displayed(doc).w, displayed(doc).h>>
        IN  /\ \A j \in 1..Len(ci.pasted) :
                  LET bb == ci.pasted[j].bbox
                      box == ci.pasted[j].box
                  IN  /\ box[1] = Max(0, bb[1] * ci.size[1])
                      /\ box[2] = Max(0, bb[2] * ci.size[2])
                      /\ box[3] = Min(ci.size[1] * doc.w, bb[3] * ci.size[1])
                      /\ box[4] = Min(ci.size[2] * doc.h, bb[4] * ci.size[2])
                      /\ 0 <= box[1] /\ box[1] < box[3] /\ box[3] <= ci.size[1] * doc.w
                      /\ 0 <= box[2] /\ box[2] < box[4] /\ box[4] <= ci.size[2] * doc.h
            /\ \A j \in 1..Len(ci.considered) :
                  ci.considered[j] = whole
                      => \E m \in 1..Len(ci.pasted) :
                             /\ ci.pasted[m].bbox = whole
                             /\ ci.pasted[m].box = WholeRaster(ci.size, doc)

KnownSubTypes(parent) ==
    IF parent = TABLE THEN {TABLE_BODY, TABLE_CAPTION, TABLE_FOOTNOTE}
                      ELSE {IMAGE_BODY, IMAGE_CAPTION, IMAGE_FOOTNOTE}

\* the bboxes of the sub-blocks of Table and Image blocks whose type is none
\* of the sub-categories of their parent
UnknownSubBoxes(pg) ==
    UNION {{pg.para_blocks[b].blocks[k].bbox :
               k \in {y \in 1..Len(pg.para_blocks[b].blocks) :
                         pg.para_blocks[b].blocks[y].type
                             \notin KnownSubTypes(pg.para_blocks[b].type)}} :
           b \in {x \in 1..Len(pg.para_blocks) : pg.para_blocks[x].type \in {TABLE, IMAGE}}}

SubBuckets(p) ==
    buckets.tables_body_list[p] \o buckets.tables_caption_list[p]
    \o buckets.tables_footnote_list[p] \o buckets.imgs_body_list[p]
    \o buckets.imgs_caption_list[p] \o buckets.imgs_footnote_list[p]

\* C9: a Table or Image sub-block of unknown type raises no error, goes to no
\* sub-category bucket and adds no bbox to the reading-order sequence.
C9_UnknownSubBlockSkipped ==
    /\ ~(pc = "raised" /\ raised = "KeyError")
    /\ \A p \in 1..Len(buckets.tables_body_list) :
          \A j \in 1..Len(SubBuckets(p)) :
              SubBuckets(p)[j] \notin UnknownSubBoxes(pdf_info[p])
    /\ \A p \in 1..Len(layout_bbox_list) :
          \A j \in 1..Len(layout_bbox_list[p]) :
              layout_bbox_list[p][j] \notin UnknownSubBoxes(pdf_info[p])

====
